---- MODULE Spec2Model ----
(***************************************************************************)
(* Voice-to-3D-model pipeline of V4C38/mit-stairway-hackers.               *)
(*                                                                         *)
(* The repository holds four entry points that are run separately:         *)
(*   "app"    src/1_NeedleBackend-main/src/app.ts   (/start, /stop, ws)    *)
(*   "index"  src/SpeechToText/index.ts             (/start, /stop)        *)
(*   "upload" src/SpeechToText/conversion_working.ts:163-328 (/upload, ws) *)
(*   "timer"  src/SpeechToText/conversion_working.ts:1-147 (10 s timer)    *)
(* and one generator module, src/testing_modelGenerator/modelGenerator.ts, *)
(* imported by the first three.  The variable variant says which entry     *)
(* point a behaviour runs; it never changes.                               *)
(*                                                                         *)
(* One step of the model is one turn of the Node event loop: the code that *)
(* runs from a callback (an HTTP request, a timer, a stream event, the     *)
(* completion of an awaited external call) up to the next await of an      *)
(* external event.                                                         *)
(***************************************************************************)
EXTENDS Integers, Sequences, FiniteSets, TLC

\* ------------------------------------------------------------------ bounds
\* Accepted start commands per behaviour (session ids 1..MaxSessions).
MaxSessions == 2
\* Stop / upload command runs per behaviour (run ids 1..MaxRuns; 0 is the
\* generator module's own run at load time).
MaxRuns == 1
\* The same, in behaviours that begin when the generator module's load-time
\* run is over.
MaxQuietRuns == 2
\* Stop / upload runs per behaviour whose transcription call succeeds.
MaxTranscripts == 1
\* Longest run of one repeated character in a sanitizer input.
MaxPad == 21
\* Observers (WebSocket clients) that may connect to the notifier.
MaxClients == 2

\* ------------------------------------------------------- program constants
\* `let micInstance: any = null` / getFileSha's `null`: no handle, no sha.
Null == 0
\* The mic handle index.ts and the timer variant create once at load.
SharedMic == -1
\* substring(0, 20) of sanitizeFileName.
MaxStemLen == 20

Variants == {"app", "index", "upload", "timer"}
Sessions == 1..MaxSessions
RunIds   == 0..(IF MaxRuns > MaxQuietRuns THEN MaxRuns ELSE MaxQuietRuns)
\* File paths: s > 0 is temp_<s>.wav / temp_converted_<s>.wav of session s,
\* 0 is the default path ('' , temp.wav), -r the files of upload run r.
PathIds  == (0 - Cardinality(RunIds))..MaxSessions
ClientIds == 1..MaxClients

\* Transcripts the transcription service may return.
Prompts == { <<"a", "!">>, <<"Z", "7">> }

VARIABLES
  variant,             \* which entry point runs
  runLimit,            \* stop / upload runs this behaviour may begin
  isRecording,         \* app.ts:55, index.ts:31
  fileStreamFinished,  \* app.ts:56, index.ts:32
  wavFilePath,         \* app.ts:57, index.ts:12 (a PathId)
  tempWavPath,         \* app.ts:58, index.ts:13 (a PathId)
  micInstance,         \* app.ts:53 (Null or a handle); index.ts:23 (SharedMic)
  micRunning,          \* handles whose capture process runs (mic start/stop)
  nextSession,         \* the timestamp of the next accepted start
  status,              \* per session: "None", "Recording", "Stopped"
  sink,                \* per session: outputFileStream "none","open","finished","error"
  rawFile,             \* per path: the raw capture / uploaded file
  convFile,            \* per path: the converter's output file
  startResp,           \* per session: the start promise / HTTP answer
  lastReply,           \* the answer of the last command that began no session or run
  run,                 \* per run id: the stop / upload / load-time chain
  nextRun,             \* next free run id
  imageFile,           \* per stem: runs whose bytes gen_<stem>.png holds
  modelFile,           \* runs whose bytes generated_model.glb holds
  remoteSha,           \* the store's version of docs/generated_model.glb (Null: absent)
  timerPending,        \* conversion_working.ts:44 setTimeout registered, not fired
  rawAudioData,        \* conversion_working.ts:32 ("empty" or "data")
  clients,             \* per observer: "absent", or its readyState in wss.clients
  inbox,               \* per observer: the messages sent to it, in order
  sanPc,               \* sanitizer harness: "idle", "in", "out"
  sanInput,            \* sanitizer harness: the prompt
  sanOutput            \* sanitizer harness: the stem

sessionVars == <<isRecording, fileStreamFinished, wavFilePath, tempWavPath,
                 micInstance, micRunning, nextSession, status, sink, rawFile,
                 startResp>>
pipelineVars == <<convFile, run, nextRun, imageFile, modelFile, remoteSha>>
timerVars == <<timerPending, rawAudioData>>
sanVars == <<sanPc, sanInput, sanOutput>>
wsVars == <<clients, inbox>>
vars == <<variant, runLimit, sessionVars, pipelineVars, timerVars, sanVars, wsVars,
         lastReply>>

\* ---------------------------------------------------------------- strings
\* A string is a sequence of one-character strings; the classes of the
\* regular expression /[^a-zA-Z0-9]/ and of trim() by representatives.
Lower == {"a"}
Upper == {"Z"}
Digit == {"7"}
Whitespace == {" "}
Other == {"!", "_"}
Alphabet == Lower \cup Upper \cup Digit \cup Whitespace \cup Other

isAlnum(c) == c \in Lower \cup Upper \cup Digit

RECURSIVE trimStart(_)
trimStart(s) ==
  IF s # <<>> /\ Head(s) \in Whitespace THEN trimStart(Tail(s)) ELSE s

RECURSIVE trimEnd(_)
trimEnd(s) ==
  IF s # <<>> /\ s[Len(s)] \in Whitespace
    THEN trimEnd(SubSeq(s, 1, Len(s) - 1))
    ELSE s

\* String.prototype.trim
trim(s) == trimEnd(trimStart(s))

\* .replace(/[^a-zA-Z0-9]/g, '_')
replaceNonAlnum(s) == [i \in 1..Len(s) |-> IF isAlnum(s[i]) THEN s[i] ELSE "_"]

\* .substring(0, n)
substring0(s, n) == SubSeq(s, 1, IF Len(s) < n THEN Len(s) ELSE n)

\* Mutant of sanitizeFileName: the substring(0, 20) dropped.
sanitizeFileName_noTruncate(input) == replaceNonAlnum(trim(input))

\* modelGenerator.ts:25-28
sanitizeFileName(input) ==
  substring0(replaceNonAlnum(trim(input)), MaxStemLen)

Stems == { sanitizeFileName(p) : p \in Prompts }

\* path.basename of a relative path given as its segments
basename(p) == p[Len(p)]

\* "generated_model.glb", the path generate3DModel returns
modelPath == <<"generated_model.glb">>

\* ------------------------------------------------------------------- runs
\* A run is one asynchronous chain: a stop command's (origin "stop"), an
\* upload request's ("upload"), the timer variant's stop ("timer") or the
\* generator module's load-time call ("boot").  pc names the external event
\* the chain awaits.  inPath, outPath and txPath are the paths handed to the
\* converter and to the transcription; detached says that the generation
\* was started without await (index.ts:144); sha and content are
\* uploadToGitHub's locals.  sess, calls, tx, end, usedImage, puts and
\* notified are history: the session the stop found current, the external
\* calls made so far in order, the outcome of the transcription call, how the
\* chain ended, whose image bytes the 3D request read, the PUT requests the
\* run sent (with what its lookup answered) and the messages it broadcast;
\* results[i] says whether the i-th external call returned without error,
\* skippedWait that the stop found fileStreamFinished set (app.ts:123).
NoRun ==
  [origin |-> "none", pc |-> "none", sess |-> Null, inPath |-> 0,
   outPath |-> 0, resp |-> "none", prompt |-> <<>>, calls |-> <<>>,
   txPath |-> 0, tx |-> "none", detached |-> FALSE, sha |-> Null,
   end |-> "none", usedImage |-> {}, content |-> {}, puts |-> <<>>,
   notified |-> <<>>, results |-> <<>>, skippedWait |-> FALSE]

\* modelGenerator.ts:213: process.argv[2] || "a friendly squirrel ... cute."
inputPrompt == <<"a", "!">>

ImportsGenerator == variant \in {"app", "index", "upload"}

\* modelGenerator.ts:211-220: the module calls generate3DModel when loaded.
bootRun ==
  [NoRun EXCEPT !.origin = "boot", !.pc = "optimize", !.prompt = inputPrompt,
                !.calls = <<"optimize">>]

InitState(limit, boot) ==
  /\ variant \in Variants
  /\ runLimit = limit
  /\ isRecording = FALSE
  /\ fileStreamFinished = FALSE
  /\ wavFilePath = 0
  /\ tempWavPath = 0
  /\ micInstance = IF variant \in {"index", "timer"} THEN SharedMic ELSE Null
  /\ micRunning = IF variant = "timer" THEN {SharedMic} ELSE {}
  /\ nextSession = 1
  /\ status = [s \in Sessions |-> "None"]
  /\ sink = [s \in Sessions |-> "none"]
  /\ rawFile = [p \in PathIds |-> "missing"]
  /\ convFile = [p \in PathIds |-> "missing"]
  /\ startResp = [s \in Sessions |-> "none"]
  /\ lastReply = "none"
  /\ run = [r \in RunIds |-> IF r = 0 /\ ImportsGenerator THEN boot ELSE NoRun]
  /\ nextRun = 1
  /\ imageFile = [st \in Stems |-> {}]
  /\ modelFile = {}
  /\ remoteSha \in {Null, 1}
  /\ timerPending = (variant = "timer")
  /\ rawAudioData = "empty"
  /\ clients = [c \in ClientIds |-> "absent"]
  /\ inbox = [c \in ClientIds |-> <<>>]

InitProgram == InitState(MaxRuns, bootRun)

Init ==
  /\ InitProgram
  /\ sanPc = "idle"
  /\ sanInput = <<>>
  /\ sanOutput = <<>>

Live == variant \in {"app", "index"}

\* ------------------------------------------------------ capture session
\* Mutant of AlreadyRecording: the guard of app.ts:63 dropped.
AlreadyRecording_never == FALSE

\* app.ts:63, index.ts:37: if (isRecording) return reject('Already recording')
AlreadyRecording == isRecording

\* The handle the new session captures from: app.ts:78 creates one per start,
\* index.ts:23 shares one.
newMic(s) == IF variant = "app" THEN s ELSE SharedMic

\* app.ts:72-76: a handle left over is stopped and dropped before the new one.
micsAfterCleanup ==
  IF variant = "app" /\ micInstance # Null
    THEN micRunning \ {micInstance}
    ELSE micRunning

\* POST /start -> startRecording (app.ts:61-108, index.ts:35-70).  opened says
\* whether fs.createWriteStream will manage to create the file; when it does
\* not, the sink's only event is 'error'.  The promise stays pending: it is
\* settled by the stream events below.
startRecording ==
  /\ Live
  /\ IF AlreadyRecording
       THEN /\ lastReply' = "Already recording"
            /\ UNCHANGED <<variant, runLimit, sessionVars, pipelineVars, timerVars, sanVars, wsVars>>
       ELSE /\ nextSession <= MaxSessions
            /\ \E opened \in BOOLEAN :
                 LET s == nextSession IN
                 /\ fileStreamFinished' = FALSE
                 /\ wavFilePath' = s
                 /\ tempWavPath' = s
                 /\ micInstance' = newMic(s)
                 /\ micRunning' = micsAfterCleanup \cup {newMic(s)}
                 /\ sink' = [sink EXCEPT ![s] = "open"]
                 /\ rawFile' = [rawFile EXCEPT ![s] =
                                  IF opened THEN "empty" ELSE "missing"]
                 /\ isRecording' = TRUE
                 /\ status' = [status EXCEPT ![s] = "Recording"]
                 /\ startResp' = [startResp EXCEPT ![s] = "pending"]
                 /\ nextSession' = s + 1
            /\ UNCHANGED <<variant, runLimit, pipelineVars, timerVars, sanVars, wsVars, lastReply>>

\* The handle session s is piped from.
micOf(s) == IF variant = "app" THEN s ELSE SharedMic

\* The promise of session s's start settles once: resolve and reject after
\* that change nothing.
settle(s, answer) ==
  IF startResp[s] = "pending"
    THEN [startResp EXCEPT ![s] = answer]
    ELSE startResp

\* Captured audio reaches the sink's file (the pipe of app.ts:87, index.ts:48),
\* while the mic runs or from the stream's buffer after it stopped.
micData(s) ==
  /\ Live
  /\ sink[s] = "open"
  /\ rawFile[s] = "empty"
  /\ rawFile' = [rawFile EXCEPT ![s] = "data"]
  /\ UNCHANGED <<variant, runLimit, isRecording, fileStreamFinished, wavFilePath,
                 tempWavPath, micInstance, micRunning, nextSession, status,
                 sink, startResp, pipelineVars, timerVars, sanVars, wsVars, lastReply>>

\* micInputStream 'error' (app.ts:92-95, index.ts:53-56): reject(err).
micError(s) ==
  /\ Live
  /\ sink[s] = "open"
  /\ micOf(s) \in micRunning
  /\ startResp[s] = "pending"
  /\ startResp' = settle(s, "500")
  /\ UNCHANGED <<variant, runLimit, isRecording, fileStreamFinished, wavFilePath,
                 tempWavPath, micInstance, micRunning, nextSession, status,
                 sink, rawFile, pipelineVars, timerVars, sanVars, wsVars, lastReply>>

\* outputFileStream 'finish' (app.ts:97-101, index.ts:59-63): the mic stream
\* ended (its process was stopped) and the sink wrote everything.
sinkFinish(s) ==
  /\ Live
  /\ sink[s] = "open"
  /\ rawFile[s] # "missing"
  /\ micOf(s) \notin micRunning
  /\ sink' = [sink EXCEPT ![s] = "finished"]
  /\ fileStreamFinished' = TRUE
  /\ startResp' = settle(s, "200")
  /\ UNCHANGED <<variant, runLimit, isRecording, wavFilePath, tempWavPath, micInstance,
                 micRunning, nextSession, status, rawFile, pipelineVars,
                 timerVars, sanVars, wsVars, lastReply>>

\* outputFileStream 'error' (app.ts:103-106, index.ts:65-68): reject(err).
sinkError(s) ==
  /\ Live
  /\ sink[s] = "open"
  /\ sink' = [sink EXCEPT ![s] = "error"]
  /\ startResp' = settle(s, "500")
  /\ UNCHANGED <<variant, runLimit, isRecording, fileStreamFinished, wavFilePath,
                 tempWavPath, micInstance, micRunning, nextSession, status,
                 rawFile, pipelineVars, timerVars, sanVars, wsVars, lastReply>>

\* ------------------------------------------------------- the stop chain
\* The external call the chain awaited has returned (ok) or thrown.
settled(rec, ok) == [rec EXCEPT !.results = Append(@, ok)]

\* Mutant of answer: /upload's catch (conversion_working.ts:293-297) answers
\* like its try block.
answer_always200(rec, failed) ==
  CASE rec.origin \in {"stop", "upload"} -> "200"
    [] OTHER -> rec.resp

\* The HTTP answer when a chain returns.  stopRecording catches every error
\* (app.ts:142-144, index.ts:109-111) and transcribeAudio catches its own
\* (app.ts:177-179), so /stop answers through .then (app.ts:195); /upload
\* answers 500 from its catch (conversion_working.ts:293-297).
answer(rec, failed) ==
  CASE rec.origin = "stop" -> "200"
    [] rec.origin = "upload" -> IF failed THEN "500" ELSE "200"
    [] OTHER -> rec.resp

\* The chain returns: how names the stage that ended it ("ok": all done).
\* Its locals are gone.
ended(rec, how, failed) ==
  [rec EXCEPT !.pc = "done", !.end = how, !.resp = answer(rec, failed),
              !.prompt = <<>>, !.sha = Null, !.content = {}]

startTranscribe(rec, path) ==
  [rec EXCEPT !.pc = "transcribe", !.txPath = path,
              !.calls = Append(@, "transcribe")]

\* app.ts:130, index.ts:94: fs.existsSync(p) && fs.statSync(p).size > 0
RawUsable(p) == rawFile[p] = "data"

\* app.ts:130-141, index.ts:94-108, run when the flush wait is over: the
\* paths are the module variables as they are then.
afterFlush(rec) ==
  IF RawUsable(wavFilePath)
    THEN [rec EXCEPT !.pc = "convert", !.inPath = wavFilePath,
                     !.outPath = tempWavPath, !.calls = Append(@, "convert")]
    ELSE ended(rec, "rawEmpty", TRUE)

\* app.ts:134-138, index.ts:100-105, run when the converter ended; cf is the
\* converted files as they are then.
afterConvert(rec, cf) ==
  IF cf[tempWavPath] = "data"
    THEN startTranscribe(rec, tempWavPath)
    ELSE ended(rec, "convertedEmpty", TRUE)

\* Mutant of StopIsNoop: the guard of app.ts:112 dropped.
StopIsNoop_never == FALSE

\* app.ts:112, index.ts:74: if (!isRecording) return
StopIsNoop == ~isRecording

\* POST /stop -> stopRecording (app.ts:111-128, index.ts:73-89), up to the
\* await of the flush wait; with fileStreamFinished set the wait is over at
\* once and the chain goes on in the same turn.
stopRecording ==
  /\ Live
  /\ IF StopIsNoop
       THEN /\ lastReply' = "Recording stopped"
            /\ UNCHANGED <<variant, runLimit, sessionVars, pipelineVars, timerVars, sanVars, wsVars>>
       ELSE /\ nextRun <= runLimit
            /\ LET r == nextRun
                   rec == [NoRun EXCEPT !.origin = "stop", !.pc = "grace",
                                        !.sess = wavFilePath, !.resp = "pending",
                                        !.skippedWait = fileStreamFinished]
               IN
               /\ micRunning' = micRunning \ {micInstance}
               /\ micInstance' = IF variant = "app" THEN Null ELSE micInstance
               /\ isRecording' = FALSE
               /\ status' = [s \in Sessions |->
                               IF s = wavFilePath THEN "Stopped" ELSE status[s]]
               /\ run' = [run EXCEPT ![r] =
                            IF fileStreamFinished THEN afterFlush(rec) ELSE rec]
               /\ nextRun' = r + 1
            /\ UNCHANGED <<variant, runLimit, fileStreamFinished, wavFilePath, tempWavPath,
                           nextSession, sink, rawFile, startResp, convFile,
                           imageFile, modelFile, remoteSha,
                           timerVars, sanVars, wsVars, lastReply>>

\* setTimeout(resolve, 1000) fires (app.ts:126, index.ts:85-87).
graceElapsed(r) ==
  /\ run[r].pc = "grace"
  /\ run' = [run EXCEPT ![r] = afterFlush(run[r])]
  /\ UNCHANGED <<variant, runLimit, sessionVars, convFile, nextRun, imageFile, modelFile,
                 remoteSha, timerVars, sanVars, wsVars, lastReply>>

\* What the converter may do: fail ('error'), or end leaving a file with
\* data, an empty file, or no file.
ConvOutcomes == {"error", "data", "empty", "missing"}

\* convertToCorrectWavFormat settles (app.ts:148-165, index.ts:115-132,
\* conversion_working.ts:306-323) and its caller goes on: stopRecording checks
\* the converted file (app.ts:134), /upload does not
\* (conversion_working.ts:272-276).
convertToCorrectWavFormat(r, out) ==
  /\ run[r].pc = "convert"
  /\ run[r].origin \in {"stop", "upload"}
  /\ LET rec == settled(run[r], out # "error")
         cf == IF out \in {"data", "empty"}
                 THEN [convFile EXCEPT ![rec.outPath] = out]
                 ELSE convFile
     IN
     /\ convFile' = cf
     /\ run' = [run EXCEPT ![r] =
                  IF out = "error" THEN ended(rec, "convertFailed", TRUE)
                  ELSE IF rec.origin = "stop" THEN afterConvert(rec, cf)
                  ELSE startTranscribe(rec, rec.outPath)]
  /\ UNCHANGED <<variant, runLimit, sessionVars, nextRun, imageFile, modelFile, remoteSha,
                 timerVars, sanVars, wsVars, lastReply>>

\* Mutant of afterTranscription: the generation is started whatever the
\* transcription call returned.
afterTranscription_evenIfFailed(rec, ok, text) ==
  [rec EXCEPT !.tx = IF ok THEN "ok" ELSE "failed", !.prompt = text,
              !.pc = "optimize", !.calls = Append(@, "optimize")]

\* The rest of transcribeAudio (app.ts:175-179, index.ts:143-147) and of
\* /upload's try block (conversion_working.ts:282-297) once the transcription
\* call settled: a failure is caught and ends the chain; a transcript starts
\* generate3DModel, whose first external call is optimizePrompt's.  index.ts
\* does not await it: the stop chain returns and answers at once.  The timer
\* variant only logs the transcript (conversion_working.ts:140).
afterTranscription(rec, ok, text) ==
  IF ~ok THEN ended([rec EXCEPT !.tx = "failed"], "transcribeFailed", TRUE)
  ELSE IF rec.origin = "timer" THEN ended([rec EXCEPT !.tx = "ok"], "ok", FALSE)
  ELSE [rec EXCEPT !.tx = "ok", !.prompt = text, !.pc = "optimize",
                   !.calls = Append(@, "optimize"),
                   !.detached = (variant = "index"),
                   !.resp = IF variant = "index" THEN "200" ELSE @]

\* openai.audio.transcriptions.create settles (app.ts:170-173,
\* index.ts:138-141, conversion_working.ts:135-138, 276-280).  A file that
\* does not exist cannot be read, so that call fails.
transcribeAudio(r, ok, text) ==
  /\ run[r].pc = "transcribe"
  /\ (ok /\ run[r].origin \in {"stop", "upload"}) =>
       Cardinality({ q \in RunIds : /\ run[q].origin \in {"stop", "upload"}
                                    /\ run[q].tx = "ok" }) < MaxTranscripts
  /\ ok => (run[r].origin = "timer" \/ convFile[run[r].txPath] # "missing")
  /\ run' = [run EXCEPT ![r] = settled(afterTranscription(run[r], ok, text), ok)]
  /\ UNCHANGED <<variant, runLimit, sessionVars, convFile, nextRun, imageFile, modelFile,
                 remoteSha, timerVars, sanVars, wsVars, lastReply>>

\* ------------------------------------------------- generation pipeline
stem(rec) == sanitizeFileName(rec.prompt)

\* optimizePrompt's axios.post settles (modelGenerator.ts:31-66, awaited at
\* :74); on success generateImage posts the image request (:84).
optimizePrompt(r, ok) ==
  /\ run[r].pc = "optimize"
  /\ run' = [run EXCEPT ![r] =
               IF ok THEN [settled(@, TRUE) EXCEPT !.pc = "image",
                                                   !.calls = Append(@, "image")]
                     ELSE ended(settled(@, FALSE), "optimizeFailed", TRUE)]
  /\ UNCHANGED <<variant, runLimit, sessionVars, convFile, nextRun, imageFile, modelFile,
                 remoteSha, timerVars, sanVars, wsVars, lastReply>>

\* Mutant of generateImage: a failed image request does not stop the run.
generateImage_ignoresFailure(r, ok) ==
  /\ run[r].pc = "image"
  /\ imageFile' = IF ok THEN [imageFile EXCEPT ![stem(run[r])] = {r}]
                        ELSE imageFile
  /\ run' = [run EXCEPT ![r] =
               [settled(@, ok) EXCEPT !.pc = "readImage",
                                      !.calls = Append(@, "model")]]
  /\ UNCHANGED <<variant, runLimit, sessionVars, convFile, nextRun, modelFile, remoteSha,
                 timerVars, sanVars, wsVars, lastReply>>

\* The image request settles (modelGenerator.ts:84-107): the bytes are
\* written to gen_<stem>.png and generate3DModel posts the 3D request (:182)
\* with a read stream on that file as its body (:178).
generateImage(r, ok) ==
  /\ run[r].pc = "image"
  /\ imageFile' = IF ok THEN [imageFile EXCEPT ![stem(run[r])] = {r}]
                        ELSE imageFile
  /\ run' = [run EXCEPT ![r] =
               IF ok THEN [settled(@, TRUE) EXCEPT !.pc = "readImage",
                                                   !.calls = Append(@, "model")]
                     ELSE ended(settled(@, FALSE), "imageFailed", TRUE)]
  /\ UNCHANGED <<variant, runLimit, sessionVars, convFile, nextRun, modelFile, remoteSha,
                 timerVars, sanVars, wsVars, lastReply>>

\* modelGenerator.ts:119: return response.data.sha || null, and :121-124: a
\* 404 is "no file".  Any other status makes axios throw.
shaOf(resp) == IF resp.status = 200 THEN resp.sha ELSE Null

\* What the store answers to the lookup now: the file's sha, 404 when it
\* holds no file, or an error (500 stands for every other failure).
LookupResponses ==
  { IF remoteSha # Null THEN [status |-> 200, sha |-> remoteSha]
                        ELSE [status |-> 404, sha |-> Null],
    [status |-> 500, sha |-> Null] }

\* The read stream of modelGenerator.ts:178 delivers the file to the request
\* body: fs.createReadStream opens and reads gen_<stem>.png in later turns of
\* the event loop, so it sends what the file holds then.
readImageStream(r) ==
  /\ run[r].pc = "readImage"
  /\ run' = [run EXCEPT ![r] = [@ EXCEPT !.pc = "model",
                                         !.usedImage = imageFile[stem(run[r])]]]
  /\ UNCHANGED <<variant, runLimit, sessionVars, convFile, nextRun, imageFile, modelFile,
                 remoteSha, timerVars, sanVars, wsVars, lastReply>>

\* The 3D request settles (modelGenerator.ts:182-204); it can fail before
\* the image was sent.  On success the bytes are written, renamed to
\* generated_model.glb (:193-194) and uploadToGitHub reads that file (:133,
\* in the same turn) and sends the lookup (:134).
generate3DModel(r, ok) ==
  /\ run[r].pc \in {"readImage", "model"}
  /\ ok => run[r].pc = "model"
  /\ modelFile' = IF ok THEN {r} ELSE modelFile
  /\ run' = [run EXCEPT ![r] =
               IF ok THEN [settled(@, TRUE) EXCEPT !.pc = "lookup", !.content = {r},
                                                   !.calls = Append(@, "lookup")]
                     ELSE ended(settled(@, FALSE), "modelFailed", TRUE)]
  /\ UNCHANGED <<variant, runLimit, sessionVars, convFile, nextRun, imageFile, remoteSha,
                 timerVars, sanVars, wsVars, lastReply>>

\* Mutant of uploadPayload: the sha is never attached.
uploadPayload_neverSha(content, sha) ==
  [message |-> "Update Model", content |-> content, branch |-> "main"]

\* modelGenerator.ts:136-147: the PUT payload; sha only when the lookup
\* returned one.
uploadPayload(content, sha) ==
  IF sha # Null
    THEN [message |-> "Update Model", content |-> content, branch |-> "main",
          sha |-> sha]
    ELSE [message |-> "Update Model", content |-> content, branch |-> "main"]

\* getFileSha settles (modelGenerator.ts:111-128, awaited at :134): an error
\* other than 404 is rethrown and ends the run; otherwise the payload is built
\* and the PUT is sent (:150).  lookup is history: what the lookup answered.
getFileSha(r, resp) ==
  /\ run[r].pc = "lookup"
  /\ resp \in LookupResponses
  /\ run' = [run EXCEPT ![r] =
               IF resp.status \in {200, 404}
                 THEN [settled(@, TRUE) EXCEPT !.pc = "put", !.sha = shaOf(resp),
                                !.calls = Append(@, "put"),
                                !.puts = Append(@,
                                   [lookup |-> resp,
                                    payload |-> uploadPayload(run[r].content,
                                                              shaOf(resp))])]
                 ELSE ended(settled(@, FALSE), "lookupFailed", TRUE)]
  /\ UNCHANGED <<variant, runLimit, sessionVars, convFile, nextRun, imageFile, modelFile,
                 remoteSha, timerVars, sanVars, wsVars, lastReply>>

\* The store takes an update that names the current version and a create
\* (no sha) when it holds no file.
storeAccepts(payload) ==
  IF "sha" \in DOMAIN payload THEN payload.sha = remoteSha /\ remoteSha # Null
                              ELSE remoteSha = Null

\* Mutant of Notifies: index.ts notifies too, from its detached call.
Notifies_detachedToo(rec) == rec.origin \in {"stop", "upload"}

\* Mutant of Notifies: the notifyClients call of app.ts:176 dropped.
Notifies_uploadOnly(rec) == rec.origin = "upload"

\* The callers that notify once generate3DModel returned its path:
\* app.ts:175-176 and conversion_working.ts:285-289.  index.ts:144 and the
\* load-time call (modelGenerator.ts:215-216) do not.
Notifies(rec) ==
  \/ rec.origin = "upload"
  \/ rec.origin = "stop" /\ ~rec.detached

\* notifyClients('modelReady', { url: `/models/${path.basename(modelPath)}` })
modelReady == [event |-> "modelReady", url |-> <<"models", basename(modelPath)>>]

\* Mutant of notifyClients: the readyState test of app.ts:46 dropped.
notifyClients_everyClient(message) ==
  [c \in ClientIds |->
     IF clients[c] # "absent" THEN Append(inbox[c], message) ELSE inbox[c]]

\* notifyClients (app.ts:43-50, conversion_working.ts:224-231): the message
\* is sent to each member of wss.clients whose readyState is 1 (OPEN).
notifyClients(message) ==
  [c \in ClientIds |->
     IF clients[c] = "open" THEN Append(inbox[c], message) ELSE inbox[c]]

\* The PUT settles (modelGenerator.ts:149-164).  On success generate3DModel
\* returns "generated_model.glb" (:201) and its caller notifies and answers.
uploadToGitHub(r, ok) ==
  /\ run[r].pc = "put"
  /\ ok => storeAccepts(uploadPayload(run[r].content, run[r].sha))
  /\ remoteSha' = IF ok THEN remoteSha + 1 ELSE remoteSha
  /\ run' = [run EXCEPT ![r] =
               IF ~ok THEN ended(settled(@, FALSE), "uploadFailed", TRUE)
               ELSE IF Notifies(@)
                 THEN ended([settled(@, TRUE) EXCEPT
                               !.notified = Append(@, modelReady)],
                            "ok", FALSE)
               ELSE ended(settled(@, TRUE), "ok", FALSE)]
  /\ inbox' = IF ok /\ Notifies(run[r]) THEN notifyClients(modelReady)
                                         ELSE inbox
  /\ UNCHANGED <<variant, runLimit, sessionVars, convFile, nextRun, imageFile, modelFile,
                 timerVars, sanVars, clients, lastReply>>

\* ------------------------------------------------------------ observers
\* The 'upgrade' handler that hands a socket to wss is registered on the HTTP
\* server in conversion_working.ts:211-215.  app.ts:200-204 registers it on
\* the Express application, which never emits 'upgrade' (app.listen makes the
\* server, app.ts:207), so there wss.clients stays empty; index.ts and the
\* timer script have no WebSocket server.
AcceptsObservers == variant = "upload"

\* wss.handleUpgrade completes (conversion_working.ts:212-214, 218-221): the
\* socket joins wss.clients with readyState OPEN.
wsConnection(c) ==
  /\ AcceptsObservers
  /\ clients[c] = "absent"
  /\ clients' = [clients EXCEPT ![c] = "open"]
  /\ UNCHANGED <<variant, runLimit, sessionVars, pipelineVars, timerVars, sanVars, inbox,
                 lastReply>>

\* The closing handshake of a client begins: readyState CLOSING, the socket
\* is still in wss.clients.
wsClosing(c) ==
  /\ clients[c] = "open"
  /\ clients' = [clients EXCEPT ![c] = "closing"]
  /\ UNCHANGED <<variant, runLimit, sessionVars, pipelineVars, timerVars, sanVars, inbox,
                 lastReply>>

\* ws 'close' (conversion_working.ts:220): the socket has left wss.clients.
wsClose(c) ==
  /\ clients[c] \in {"open", "closing"}
  /\ clients' = [clients EXCEPT ![c] = "absent"]
  /\ UNCHANGED <<variant, runLimit, sessionVars, pipelineVars, timerVars, sanVars, inbox,
                 lastReply>>

\* ---------------------------------------------------------------- /upload
\* POST /upload (conversion_working.ts:258-272): 400 without a file, else the
\* converter is started on the stored upload; content is what the client sent.
uploadRequest(hasFile, content) ==
  /\ variant = "upload"
  /\ IF ~hasFile
       THEN /\ lastReply' = "No file uploaded."
            /\ UNCHANGED <<variant, runLimit, sessionVars, pipelineVars, timerVars, sanVars, wsVars>>
       ELSE /\ nextRun <= runLimit
            /\ LET r == nextRun IN
               /\ rawFile' = [rawFile EXCEPT ![0 - r] = content]
               /\ run' = [run EXCEPT ![r] =
                            [NoRun EXCEPT !.origin = "upload", !.pc = "convert",
                                          !.inPath = 0 - r, !.outPath = 0 - r,
                                          !.resp = "pending",
                                          !.calls = <<"convert">>]]
               /\ nextRun' = r + 1
            /\ UNCHANGED <<variant, runLimit, isRecording, fileStreamFinished, wavFilePath,
                           tempWavPath, micInstance, micRunning, nextSession,
                           status, sink, startResp, convFile, imageFile,
                           modelFile, remoteSha, timerVars,
                           sanVars, wsVars, lastReply>>

\* ------------------------------------------------------ the timer variant
\* micInputStream 'data' (conversion_working.ts:39-41).
timerData ==
  /\ variant = "timer"
  /\ SharedMic \in micRunning
  /\ rawAudioData = "empty"
  /\ rawAudioData' = "data"
  /\ UNCHANGED <<variant, runLimit, sessionVars, pipelineVars, timerPending, sanVars, wsVars,
                 lastReply>>

\* setTimeout(stopRecording, durationInSeconds * 1000) fires
\* (conversion_working.ts:44, 48-66): the mic is stopped, the buffer written
\* to temp.wav and, when it holds data, sox is spawned (:72).
timerFire ==
  /\ variant = "timer"
  /\ timerPending
  /\ nextRun <= runLimit
  /\ timerPending' = FALSE
  /\ micRunning' = micRunning \ {micInstance}
  /\ rawFile' = [rawFile EXCEPT ![wavFilePath] = rawAudioData]
  /\ LET rec == [NoRun EXCEPT !.origin = "timer", !.inPath = wavFilePath] IN
     run' = [run EXCEPT ![nextRun] =
               IF rawAudioData = "data"
                 THEN [rec EXCEPT !.pc = "convert", !.calls = <<"convert">>]
                 ELSE ended(rec, "rawEmpty", TRUE)]
  /\ nextRun' = nextRun + 1
  /\ UNCHANGED <<variant, runLimit, isRecording, fileStreamFinished, wavFilePath,
                 tempWavPath, micInstance, nextSession, status, sink, startResp,
                 convFile, imageFile, modelFile, remoteSha,
                 rawAudioData, sanVars, wsVars, lastReply>>

\* sox closes (conversion_working.ts:82-89): code 0 starts lame (:103).
convertToPcm(r, ok) ==
  /\ run[r].pc = "convert"
  /\ run[r].origin = "timer"
  /\ run' = [run EXCEPT ![r] =
               IF ok THEN [settled(@, TRUE) EXCEPT !.pc = "encode",
                                                   !.calls = Append(@, "encode")]
                     ELSE ended(settled(@, FALSE), "convertFailed", TRUE)]
  /\ UNCHANGED <<variant, runLimit, sessionVars, convFile, nextRun, imageFile, modelFile,
                 remoteSha, timerVars, sanVars, wsVars, lastReply>>

\* lame closes (conversion_working.ts:113-121): code 0 starts the
\* transcription (:117).
encodeMp3(r, ok) ==
  /\ run[r].pc = "encode"
  /\ run' = [run EXCEPT ![r] =
               IF ok THEN startTranscribe(settled(@, TRUE), 0)
                     ELSE ended(settled(@, FALSE), "encodeFailed", TRUE)]
  /\ UNCHANGED <<variant, runLimit, sessionVars, convFile, nextRun, imageFile, modelFile,
                 remoteSha, timerVars, sanVars, wsVars, lastReply>>

\* ------------------------------------------------------------ behaviours
Next ==
  \/ startRecording
  \/ stopRecording
  \/ \E s \in Sessions : micData(s)
  \/ \E s \in Sessions : micError(s)
  \/ \E s \in Sessions : sinkFinish(s)
  \/ \E s \in Sessions : sinkError(s)
  \/ \E r \in RunIds : graceElapsed(r)
  \/ \E r \in RunIds, out \in ConvOutcomes : convertToCorrectWavFormat(r, out)
  \/ \E r \in RunIds, ok \in BOOLEAN, text \in Prompts : transcribeAudio(r, ok, text)
  \/ \E r \in RunIds, ok \in BOOLEAN : optimizePrompt(r, ok)
  \/ \E r \in RunIds, ok \in BOOLEAN : generateImage(r, ok)
  \/ \E r \in RunIds : readImageStream(r)
  \/ \E r \in RunIds, ok \in BOOLEAN : generate3DModel(r, ok)
  \/ \E r \in RunIds, resp \in LookupResponses : getFileSha(r, resp)
  \/ \E r \in RunIds, ok \in BOOLEAN : uploadToGitHub(r, ok)
  \/ \E hasFile \in BOOLEAN, content \in {"data", "empty"} :
       uploadRequest(hasFile, content)
  \/ timerData
  \/ timerFire
  \/ \E r \in RunIds, ok \in BOOLEAN : convertToPcm(r, ok)
  \/ \E r \in RunIds, ok \in BOOLEAN : encodeMp3(r, ok)
  \/ \E c \in ClientIds : wsConnection(c)
  \/ \E c \in ClientIds : wsClosing(c)
  \/ \E c \in ClientIds : wsClose(c)

Spec == Init /\ [][Next]_vars

\* ------------------------------- behaviours after the load-time run
\* The load-time run is over: its first request was refused (:62-65 rethrows,
\* :217-219 logs), so it wrote no file and sent no PUT.
quietBoot ==
  [bootRun EXCEPT !.pc = "done", !.end = "optimizeFailed", !.prompt = <<>>,
                  !.results = <<FALSE>>]

InitQuiet ==
  /\ InitState(MaxQuietRuns, quietBoot)
  /\ sanPc = "idle"
  /\ sanInput = <<>>
  /\ sanOutput = <<>>

SpecQuiet == InitQuiet /\ [][Next]_vars

\* ------------------------------------------- behaviours with fairness
\* A sink settles: it emits 'finish', or 'error' once its mic stream has
\* ended or when its file could not be created.
sinkSettles(s) ==
  \/ sinkFinish(s)
  \/ sinkError(s) /\ (micOf(s) \notin micRunning \/ rawFile[s] = "missing")

\* Every external call returns (with success or failure), every timer
\* fires, a body stream that was opened is read, and a sink settles.
\* Commands, audio, errors of a running capture and observers are under no
\* obligation.
Fairness ==
  /\ \A s \in Sessions : WF_vars(sinkSettles(s))
  /\ \A r \in RunIds :
       /\ WF_vars(graceElapsed(r))
       /\ WF_vars(\E out \in ConvOutcomes : convertToCorrectWavFormat(r, out))
       /\ WF_vars(\E ok \in BOOLEAN, text \in Prompts : transcribeAudio(r, ok, text))
       /\ WF_vars(\E ok \in BOOLEAN : optimizePrompt(r, ok))
       /\ WF_vars(\E ok \in BOOLEAN : generateImage(r, ok))
       /\ WF_vars(readImageStream(r))
       /\ WF_vars(\E ok \in BOOLEAN : generate3DModel(r, ok))
       /\ WF_vars(\E resp \in LookupResponses : getFileSha(r, resp))
       /\ WF_vars(\E ok \in BOOLEAN : uploadToGitHub(r, ok))
       /\ WF_vars(\E ok \in BOOLEAN : convertToPcm(r, ok))
       /\ WF_vars(\E ok \in BOOLEAN : encodeMp3(r, ok))
  /\ WF_vars(timerFire)

InitFair ==
  /\ InitState(MaxRuns, quietBoot)
  /\ sanPc = "idle"
  /\ sanInput = <<>>
  /\ sanOutput = <<>>

SpecFair == InitFair /\ [][Next]_vars /\ Fairness

\* ------------------------------------------------- the sanitizer alone
Rep(c, k) == [i \in 1..k |-> c]

Words1 == {<<>>} \cup { <<c>> : c \in Alphabet }

\* Prompts: a run of up to MaxPad equal characters between two characters
\* (or none) of any class.
SanInputs ==
  { a \o Rep(c, k) \o b : a \in Words1, b \in Words1,
                          c \in Alphabet, k \in 0..MaxPad }

InitSan ==
  /\ InitProgram
  /\ variant = "app"
  /\ remoteSha = Null
  /\ sanPc = "in"
  /\ sanInput \in SanInputs
  /\ sanOutput = <<>>

\* modelGenerator.ts:94, 191: the stem of a prompt.
sanitize ==
  /\ sanPc = "in"
  /\ sanOutput' = sanitizeFileName(sanInput)
  /\ sanPc' = "out"
  /\ UNCHANGED <<variant, runLimit, sessionVars, pipelineVars, timerVars, wsVars, sanInput,
                 lastReply>>

NextSan == sanitize

SpecSan == InitSan /\ [][NextSan]_vars

\* ================================================================ claims
StopRuns == { r \in RunIds : run[r].origin = "stop" }
CommandRuns == { r \in RunIds : run[r].origin \in {"stop", "upload"} }
RecordingSessions == { s \in Sessions : status[s] = "Recording" }
GenerationCalls == {"optimize", "image", "model", "lookup", "put"}
InFlight(r) == run[r].pc \notin {"none", "done"}

\* C1: in every reachable state at most one session is Recording, and a
\* start command issued while a session is Recording is answered 'Already
\* recording' and changes nothing else: no session state (isRecording, the
\* file paths, fileStreamFinished, the mic handle, the sinks), no run.
C1_OnlyFirstStartSucceeds ==
  /\ [](Cardinality(RecordingSessions) <= 1)
  /\ [][(startRecording /\ isRecording) =>
          /\ lastReply' = "Already recording"
          /\ UNCHANGED <<sessionVars, pipelineVars, timerVars>>]_vars

\* C1 witness: one start was accepted, a later one was rejected, and the
\* first session is still the one recording.
C1_Witness ==
  /\ isRecording
  /\ lastReply = "Already recording"
  /\ nextSession = 2
  /\ RecordingSessions = {1}

\* C2: a stop command issued while the controller is not recording answers
\* 'Recording stopped' (no error) and changes nothing else: no session state,
\* no run, hence no conversion, transcription, generation, publish or
\* notification.
C2_StopWhileIdleIsNoop ==
  [][(stopRecording /\ ~isRecording) =>
       /\ lastReply' = "Recording stopped"
       /\ UNCHANGED <<sessionVars, pipelineVars, timerVars>>]_vars

\* C2 witness: a stop was answered while idle without any run having begun.
C2_Witness ==
  /\ ~isRecording
  /\ lastReply = "Recording stopped"
  /\ nextRun = 1
  /\ \A r \in RunIds : run[r].origin # "stop"

\* C3: while a stop's chain is in flight (flush wait, conversion,
\* transcription, generation or publish not finished) no other session is
\* Recording, i.e. a start issued meanwhile was rejected.
C3_NoStartDuringStopChain ==
  \A r \in StopRuns :
    InFlight(r) => \A s \in RecordingSessions : s = run[r].sess

\* C4: a stop that finds the raw capture file missing or empty calls neither
\* the converter nor the transcription service and answers its caller with a
\* failure.
C4_EmptyRawReportsFailure ==
  \A r \in StopRuns :
    run[r].end = "rawEmpty" => run[r].calls = <<>> /\ run[r].resp = "500"

\* C4, the part the code keeps: no converter and no transcription call.
C4_EmptyRawStopsPipeline ==
  \A r \in StopRuns : run[r].end = "rawEmpty" => run[r].calls = <<>>

\* C5: in every run of a stop or upload command, a generation call
\* (optimize, image, 3D, lookup, upload) is made only after the run's
\* transcription call was made and succeeded; a run whose transcription
\* failed makes none, sends no PUT and broadcasts no modelReady.
C5_GenerationOnlyAfterTranscript ==
  \A r \in CommandRuns :
    LET rec == run[r] IN
    /\ \A i \in DOMAIN rec.calls :
         rec.calls[i] \in GenerationCalls =>
           /\ rec.tx = "ok"
           /\ \E j \in 1..(i - 1) : rec.calls[j] = "transcribe"
    /\ rec.tx = "failed" =>
         /\ \A i \in DOMAIN rec.calls : rec.calls[i] \notin GenerationCalls
         /\ rec.puts = <<>>
         /\ rec.notified = <<>>

\* C5 witness: a command's run whose transcription failed and that ended
\* there, the transcription being its last external call.
C5_Witness ==
  \E r \in CommandRuns :
    /\ run[r].tx = "failed"
    /\ run[r].pc = "done"
    /\ run[r].calls[Len(run[r].calls)] = "transcribe"

\* C6: every PUT carries a sha exactly when its lookup found the file (200),
\* and then the sha the lookup returned; after a 404 it carries none; a run
\* whose lookup failed otherwise sends no PUT.
C6_ShaIffRemoteFileFound ==
  \A r \in RunIds :
    LET rec == run[r] IN
    /\ \A i \in DOMAIN rec.puts :
         LET e == rec.puts[i] IN
         /\ ("sha" \in DOMAIN e.payload) <=> (e.lookup.status = 200)
         /\ e.lookup.status = 200 => e.payload.sha = e.lookup.sha
         /\ e.lookup.status \in {200, 404}
    /\ rec.end = "lookupFailed" => rec.puts = <<>>

\* C6 witness: one run created the file (no sha) and another updated it
\* (with the sha its lookup returned).
C6_Witness ==
  \E r1, r2 \in RunIds :
    /\ Len(run[r1].puts) = 1 /\ "sha" \notin DOMAIN run[r1].puts[1].payload
    /\ Len(run[r2].puts) = 1 /\ "sha" \in DOMAIN run[r2].puts[1].payload
    /\ run[r2].puts[1].payload.sha # Null

\* C7 as stated: the stem holds only characters of [A-Za-z0-9] and is at
\* most 20 long.
C7_StemAlnumOnly ==
  sanPc = "out" =>
    /\ Len(sanOutput) <= MaxStemLen
    /\ \A i \in DOMAIN sanOutput : isAlnum(sanOutput[i])

\* C7 amended: the stem holds only characters of [A-Za-z0-9_] (every other
\* character is replaced by '_', not dropped) and is at most 20 long.
C7_StemAlnumOrUnderscore ==
  sanPc = "out" =>
    /\ Len(sanOutput) <= MaxStemLen
    /\ \A i \in DOMAIN sanOutput : isAlnum(sanOutput[i]) \/ sanOutput[i] = "_"

\* C7 witness: a prompt longer than 20 with a character outside [A-Za-z0-9]
\* was cut to 20.
C7_Witness ==
  /\ sanPc = "out"
  /\ Len(trim(sanInput)) > MaxStemLen
  /\ \E i \in 1..MaxStemLen : ~isAlnum(trim(sanInput)[i])
  /\ Len(sanOutput) = MaxStemLen

C9_RecordingHasForceStopTimer ==
  micRunning # {} => timerPending

\* C10: POST /stop answers 200 only when the stop's whole pipeline succeeded,
\* and 500 whenever the chain ended in a failure.
C10_StopAnswerReflectsOutcome ==
  \A r \in StopRuns :
    /\ run[r].resp = "200" => run[r].end = "ok"
    /\ (run[r].pc = "done" /\ run[r].end # "ok") => run[r].resp = "500"

\* C11: every session that is Recording has had its start command answered:
\* the answer 'Recording started' does not wait for a stop command or for
\* the sink's 'finish'.
C11_AcceptedStartIsAnswered ==
  \A s \in Sessions : status[s] = "Recording" => startResp[s] # "pending"

UploadRuns == { r \in RunIds : run[r].origin = "upload" }
UploadStages ==
  <<"convert", "transcribe", "optimize", "image", "model", "lookup", "put">>
IsPrefix(a, b) == Len(a) <= Len(b) /\ a = SubSeq(b, 1, Len(a))

\* C12: POST /upload without a file answers 400 'No file uploaded.' and
\* starts no run; with a file its external calls are a prefix of convert,
\* transcribe, optimize, image, 3D, lookup, upload in that order; it answers
\* 200 only after all of them succeeded and modelReady was broadcast, answers
\* nothing before the chain is over, and answers 500 without any broadcast
\* when a stage failed.
C12_UploadAnswers ==
  /\ [](\A r \in UploadRuns :
          LET rec == run[r] IN
          /\ IsPrefix(rec.calls, UploadStages)
          /\ rec.resp = "200" =>
               /\ rec.end = "ok"
               /\ rec.calls = UploadStages
               /\ Len(rec.results) = Len(UploadStages)
               /\ \A i \in DOMAIN rec.results : rec.results[i]
               /\ rec.notified = <<modelReady>>
          /\ rec.pc # "done" => rec.resp = "pending" /\ rec.notified = <<>>
          /\ (rec.pc = "done" /\ rec.end # "ok") =>
               rec.resp = "500" /\ rec.notified = <<>>)
  /\ [][(\E c \in {"data", "empty"} : uploadRequest(FALSE, c)) =>
          /\ lastReply' = "No file uploaded."
          /\ UNCHANGED <<sessionVars, pipelineVars, timerVars>>]_vars

\* C12 witness: a request without a file was answered 400, and a request
\* with a file went through every stage and was answered 200.
C12_Witness ==
  /\ lastReply = "No file uploaded."
  /\ \E r \in UploadRuns :
       /\ run[r].end = "ok"
       /\ run[r].resp = "200"
       /\ run[r].calls = UploadStages

\* C13: a step in which a run broadcasts sends the message to exactly the
\* observers that are in wss.clients and OPEN at that moment (appended to
\* what each had), to no observer that is absent or closing, leaves the set
\* of observers and their states as they were, and the broadcasting run ends
\* in success whatever the observers' states.
C13_NotifyReachesExactlyOpenClients ==
  [][\A r \in RunIds :
       Len(run'[r].notified) > Len(run[r].notified) =>
         LET message == run'[r].notified[Len(run'[r].notified)] IN
         /\ clients' = clients
         /\ \A c \in ClientIds :
              inbox'[c] = IF clients[c] = "open"
                            THEN Append(inbox[c], message)
                            ELSE inbox[c]
         /\ run'[r].end = "ok"
         /\ run'[r].resp = "200"]_vars

\* C13 witness: a run broadcast and ended in success while one observer was
\* open and got the message and another, closing, got nothing.
C13_Witness ==
  \E r \in RunIds, c1, c2 \in ClientIds :
    /\ run[r].notified = <<modelReady>>
    /\ run[r].end = "ok"
    /\ inbox[c1] = <<modelReady>>
    /\ clients[c2] = "closing"
    /\ inbox[c2] = <<>>

GenStages == <<"optimize", "image", "model", "lookup", "put">>
genCalls(rec) == SelectSeq(rec.calls, LAMBDA x : x \in GenerationCalls)

\* C14: in every run the generation calls made so far are a prefix of
\* optimize, image, 3D, lookup, upload; every call after the first was made
\* only when the call before it had returned without error, so after a
\* failed call there is none; a PUT was sent only by a run whose optimize,
\* image, 3D and lookup calls succeeded, and a modelReady was broadcast only
\* by a run all of whose calls succeeded, the upload included.
C14_GenerationStagesInOrder ==
  \A r \in RunIds :
    LET rec == run[r] IN
    /\ IsPrefix(genCalls(rec), GenStages)
    /\ Len(rec.results) \in {Len(rec.calls), Len(rec.calls) - 1}
    /\ \A i \in DOMAIN rec.calls :
         (i > 1 /\ rec.calls[i] \in GenerationCalls) => rec.results[i - 1]
    /\ rec.puts # <<>> =>
         /\ Len(genCalls(rec)) = 5
         /\ \A i \in 1..(Len(rec.calls) - 1) : rec.results[i]
    /\ rec.notified # <<>> =>
         /\ genCalls(rec) = GenStages
         /\ Len(rec.results) = Len(rec.calls)
         /\ \A i \in DOMAIN rec.results : rec.results[i]

\* C14 witness: one run stopped at a failed image request (no 3D, lookup or
\* upload call, no PUT) while another went through all five calls.
C14_Witness ==
  \E r1, r2 \in RunIds :
    /\ run[r1].end = "imageFailed"
    /\ run[r1].calls[Len(run[r1].calls)] = "image"
    /\ run[r1].puts = <<>>
    /\ run[r2].end = "ok"
    /\ genCalls(run[r2]) = GenStages

\* C15: a session whose start was answered with an error (mic stream error
\* or sink write error) is no longer Recording, and while it is the current
\* session the controller is idle, so the next start is accepted.
C15_FailedSessionResetsToIdle ==
  \A s \in Sessions :
    startResp[s] = "500" =>
      /\ status[s] # "Recording"
      /\ wavFilePath = s => ~isRecording

\* C16: while a stop's converter call is under way, the raw file it was
\* given holds data and that session's sink has emitted 'finish'.
C16_ConvertOnlyAfterFinish ==
  \A r \in StopRuns :
    run[r].pc = "convert" =>
      /\ rawFile[run[r].inPath] = "data"
      /\ sink[run[r].inPath] = "finished"

\* C17: while a transcription call of a stop or upload command is under way,
\* the normalized file it was given exists and holds data.
C17_TranscribeOnlyNonEmpty ==
  \A r \in CommandRuns :
    run[r].pc = "transcribe" => convFile[run[r].txPath] = "data"

\* C18: the image a run's 3D request sent was written by that run, and the
\* model bytes a run uploads were produced by that run.
C18_RunsUseOwnArtifacts ==
  \A r \in RunIds :
    /\ run[r].usedImage \subseteq {r}
    /\ run[r].content \subseteq {r}
    /\ \A i \in DOMAIN run[r].puts : run[r].puts[i].payload.content \subseteq {r}

\* The sinks piped from mic stream m that have not finished or failed.
attachedSinks(m) == { s \in Sessions : sink[s] = "open" /\ micOf(s) = m }

\* C19: at most one sink is attached to a microphone input stream: when a
\* session begins capturing, the sinks of the earlier sessions are detached.
C19_OneSinkPerMicStream ==
  \A m \in Sessions \cup {SharedMic} : Cardinality(attachedSinks(m)) <= 1

\* A generation failure of a run whose promise nobody awaits or catches
\* (index.ts:144): an unhandled rejection.
UnhandledRejection(r) ==
  /\ run[r].detached
  /\ run[r].end \in {"optimizeFailed", "imageFailed", "modelFailed",
                     "lookupFailed", "uploadFailed"}

\* C20: no stage failure of a stop command's run surfaces as an unhandled
\* rejection, and none occurs after the command was answered: a run that
\* was answered 200 while still in flight does not end in a failure.
C20_FailuresCaughtInsideChain ==
  \A r \in StopRuns : ~UnhandledRejection(r)

\* C21: the raw file a stop hands to the converter, the file the converter
\* writes and the file the stop hands to the transcription are those of the
\* session that stop ended.
C21_StopUsesItsOwnSessionFiles ==
  \A r \in StopRuns :
    /\ "convert" \in { run[r].calls[i] : i \in DOMAIN run[r].calls } =>
         run[r].inPath = run[r].sess /\ run[r].outPath = run[r].sess
    /\ "transcribe" \in { run[r].calls[i] : i \in DOMAIN run[r].calls } =>
         run[r].txPath = run[r].sess

\* C22: a stop that found fileStreamFinished set, and so did not wait, ended
\* a session whose sink has emitted 'finish'.
C22_SkippedWaitMeansOwnSinkFinished ==
  \A r \in StopRuns : run[r].skippedWait => sink[run[r].sess] = "finished"

\* C23: a run that broadcast modelReady ended in success with its PUT, the
\* last of its calls, accepted; a run whose PUT failed broadcast nothing;
\* and the step that broadcasts is the one in which the PUT succeeds, taken
\* while the command's response is still pending, the response being sent
\* by the end of that step.
C23_NotifyAfterPublishBeforeResponse ==
  /\ [](\A r \in RunIds :
          LET rec == run[r] IN
          /\ rec.notified # <<>> =>
               /\ rec.end = "ok"
               /\ Len(rec.puts) = 1
               /\ rec.calls[Len(rec.calls)] = "put"
               /\ rec.results[Len(rec.calls)]
          /\ rec.end = "uploadFailed" => rec.notified = <<>>)
  /\ [][\A r \in RunIds :
          run'[r].notified # run[r].notified =>
            /\ run[r].pc = "put"
            /\ run[r].resp = "pending"
            /\ remoteSha' = remoteSha + 1
            /\ run'[r].resp = "200"]_vars

\* C23 witness: under app.ts a stop's run sent its PUT, broadcast modelReady
\* and answered, and the load-time run's PUT failed without any broadcast.
C23_Witness ==
  /\ variant = "app"
  /\ \E r \in StopRuns :
       /\ run[r].notified = <<modelReady>>
       /\ Len(run[r].puts) = 1
       /\ run[r].resp = "200"
  /\ run[0].end = "uploadFailed"
  /\ run[0].notified = <<>>

\* C24: while a run's PUT is under way, the version it names is the
\* store's current version of the file (none when the store holds none):
\* no other run's upload came between its lookup and its upload.
C24_UploadNamesCurrentVersion ==
  \A r \in RunIds : run[r].pc = "put" => run[r].sha = remoteSha

\* C26: as long as no stop or upload command has begun a run, no PUT has
\* been sent: every publish call belongs to a command's run.
C26_NoCommandNoPublish ==
  (\A r \in RunIds : run[r].origin \notin {"stop", "upload"}) =>
    \A r \in RunIds : run[r].puts = <<>>

\* C25: every accepted start command is eventually answered, every stop or
\* upload command that began a run is eventually answered, and after a stop
\* the controller is eventually not recording, so that a start is accepted
\* (or it has accepted one already).
C25_EveryCommandIsAnswered ==
  /\ \A s \in Sessions :
       (startResp[s] = "pending") ~> (startResp[s] \in {"200", "500"})
  /\ \A r \in RunIds :
       (run[r].resp = "pending") ~> (run[r].resp \in {"200", "500"})
  /\ \A r \in RunIds :
       (run[r].origin = "stop") ~>
         (~isRecording \/ wavFilePath # run[r].sess)

====
